---- MODULE Spec2Model ----
(***************************************************************************)
(* Model of src/log.js: the USERQUERY browser agent.                       *)
(*                                                                         *)
(* The program state is the module-level variables of log.js (lines 22-28  *)
(* and 37).  The browser is the environment: the listeners registered on   *)
(* document/window, the running interval timers, localStorage, the         *)
(* data-zenid attribute of the page's elements, and the fetch requests     *)
(* whose promise has not settled yet.  Execution is single threaded: every *)
(* action below is one callback run to completion by the event loop.       *)
(***************************************************************************)
EXTENDS Integers, Sequences, FiniteSets, TLC

\* ---- bounds of the model ------------------------------------------------
MaxEvents == 2      \* payload objects created by trackInternal
MaxSends  == 2      \* fetch calls made by flushEventBatch
MaxInits  == 2      \* completed runs of attachCoreEventListeners

NULL == "null"    \* JavaScript null / absent value (of string-valued state)
NoTimer == 0      \* _batchTimer = null; setInterval handles are positive

\* ---- the page and the callers' inputs -----------------------------------
\* The elements of the page (their attributes: Attr below), and the one the
\* user clicks while the whole agent runs.
Elements == {"b1", "b2", "d1", "c1", "c2"}
Clicked == {"b1"}
\* Configurations handed to init: none, or {siteId: "abc"}.
Configs == { [k \in {} |-> ""], [siteId |-> "abc"] }
\* Event names handed to trackCustom.
CustomNames == {"purchase"}
\* localStorage and crypto as an init call finds them: reading / writing
\* localStorage works ("ok") or throws; crypto offers randomUUID ("uuid"),
\* only getRandomValues ("bytes"), or is missing ("none").
Environments ==
  { [read |-> "ok",     write |-> "ok",     crypto |-> "uuid"],
    [read |-> "throws", write |-> "throws", crypto |-> "bytes"],
    [read |-> "ok",     write |-> "ok",     crypto |-> "none"] }
\* The data objects handed to trackCustom, and the clock readings.
CustomData ==
  { [k \in {} |-> ""], [amount |-> "5"],
    [eventName |-> "spoofed", userId |-> "someone"],
    [screenSize |-> "1x1", plan |-> "pro"] }
Timestamps == {"T1", "T2"}
\* The code units of the strings fnv32a is called on, and their length.
CodeUnits == {97, 122, 255, 65535}
MaxStrLen == 3
Strings == UNION { [1 .. n -> CodeUnits] : n \in 0 .. MaxStrLen }
\* generateStableZenId calls made.
MaxRequests == 4
\* What the random source may return.
RandomIds == {"u1"}
\* How a fetch promise settles: response.ok, !response.ok, rejection.
Outcomes == {"ok", "notok", "error"}

VARIABLES
  \* log.js module state
  _initialized, _siteId, _userId, _config, _eventListeners, _eventBatch,
  _batchTimer, zenMapping,
  \* browser state
  listeners,     \* listeners registered on document / window
  timers,        \* handles of the running setInterval timers
  storage,       \* localStorage["USERQUERY_uid"], NULL when absent
  dataZenid,     \* data-zenid attribute of each element, NULL when absent
  scrollRecent,  \* scrollHandler closure: now - lastScrollTime < 1000
  pending,       \* fetch promises not settled yet (index into sent)
  sent,          \* request bodies handed to fetch, in call order; of the
                 \* events a body lists the model keeps the identities
  console,       \* the line console.log / console.warn printed last
  \* identities
  nextEv,        \* payload objects created so far + 1 (object identity)
  gen,           \* runs of attachCoreEventListeners so far (closure identity)
  \* history, recorded by SpecAudit only
  initMark,      \* nextEv when init last completed; 0 once a timer tick or
                 \* beforeunload flush ran since
  stopDue,       \* the events recorded since init when stop() last ran before
                 \* any such flush, and the batch stop() sent (0: none)
  \* one function of the module called on its own (the function
  \* specifications below; Spec leaves both empty)
  called,        \* the arguments of the calls made so far
  returned       \* <<the value the last call returned>>

progVars == <<_initialized, _siteId, _userId, _config, _eventListeners,
              _eventBatch, _batchTimer, zenMapping>>
envVars  == <<listeners, timers, storage, dataZenid, scrollRecent, pending, sent>>
idVars   == <<nextEv, gen>>
histVars == <<initMark, stopDue>>
fnVars   == <<called, returned>>
vars == <<progVars, envVars, console, idVars, histVars, fnVars>>

\* ---- helpers -------------------------------------------------------------
Range(s) == { s[i] : i \in DOMAIN s }
EventIds(s) == { s[i].id : i \in DOMAIN s }
SentIds == UNION { Range(sent[i].events) : i \in DOMAIN sent }
BatchesWith(e) == { i \in DOMAIN sent : e \in Range(sent[i].events) }

DEFAULT_CONFIG == [siteId |-> "UNKNOWN_SITE", batchInterval |-> 5000]

\* Object.assign({}, DEFAULT_CONFIG, config)
AssignConfig(config) ==
  [k \in DOMAIN DEFAULT_CONFIG \cup DOMAIN config |->
     IF k \in DOMAIN config THEN config[k] ELSE DEFAULT_CONFIG[k]]

\* ---- element identity (lines 43-105) -------------------------------------
\* Static attributes of the page's elements: tagName, id, className, the
\* name and type attributes ("" when absent) and textContent.  Two buttons
\* alike, a div, and two empty elements of the unknown tag <constructor>.
Attr(el) ==
  CASE el \in {"b1", "b2"} ->
         [tagName |-> "BUTTON", id |-> "", className |-> "", name |-> "",
          type |-> "", text |-> "Go"]
    [] el = "d1" ->
         [tagName |-> "DIV", id |-> "main", className |-> "", name |-> "",
          type |-> "", text |-> ""]
    [] el \in {"c1", "c2"} ->
         [tagName |-> "CONSTRUCTOR", id |-> "", className |-> "", name |-> "",
          type |-> "", text |-> ""]

\* A text of 50 characters.
LongText == "0123456789012345678901234567890123456789012345678x"

\* The elements generateElementSignature is called on by itself: every
\* combination of these attribute values ("" as tagName: a node without one).
ElementShapes ==
  [tagName : {"BUTTON", "DIV", ""}, id : {"", "a", "a|class:b"},
   className : {"", "b"}, name : {"", "n"}, type : {"", "submit"},
   text : {"", "Go", " Go ", LongText}]

\* String.prototype.toLowerCase on the tag names of the model.
toLowerCase(str) ==
  CASE str = "BUTTON" -> "button"
    [] str = "DIV" -> "div"
    [] str = "CONSTRUCTOR" -> "constructor"
    [] OTHER -> str

\* String.prototype.trim on the texts of the model.
trim(str) == IF str = " Go " THEN "Go" ELSE str

\* The parts array before it is joined (lines 46-58).
parts(element) ==
  LET text == trim(element.text) IN
  <<toLowerCase(element.tagName)>>
  \o (IF element.id # "" THEN <<"id:" \o element.id>> ELSE <<>>)
  \o (IF element.className # "" THEN <<"class:" \o element.className>> ELSE <<>>)
  \o (IF element.name # "" THEN <<"name:" \o element.name>> ELSE <<>>)
  \o (IF element.type # "" THEN <<"type:" \o element.type>> ELSE <<>>)
  \o (IF text # "" /\ Len(text) < 50 THEN <<"text:" \o text>> ELSE <<>>)

\* Array.prototype.join: the strings concatenated with the separator.
RECURSIVE join(_, _)
join(array, separator) ==
  IF Len(array) = 0 THEN ""
  ELSE IF Len(array) = 1 THEN array[1]
  ELSE array[1] \o separator \o join(Tail(array), separator)

\* generateElementSignature: NULL for a node without tagName.
generateElementSignature(element) ==
  IF element.tagName = "" THEN NULL ELSE join(parts(element), "|")

\* The signature of each element of the page.
signatureOf == [el \in Elements |-> generateElementSignature(Attr(el))]

Signatures == { signatureOf[el] : el \in Elements }

\* fnv32a (lines 66-73).  A JavaScript Number holding the integer
\* hi * 2^16 + lo with 0 <= lo < 2^16; the sums of line 70 stay far below
\* 2^53, so the Number arithmetic of "+" is exact.
Num(hi, lo) == [hi |-> hi, lo |-> lo]

\* ToInt32 / ToUint32: the operand of a bitwise operator, of ">>> 0".
ToInt32(n) == Num(((n.hi + 2^15) % 2^16) - 2^15, n.lo)
ToUint32(n) == Num(n.hi % 2^16, n.lo)

\* Bitwise exclusive or of two naturals.
RECURSIVE xor16(_, _)
xor16(a, b) ==
  IF a = 0 THEN b
  ELSE IF b = 0 THEN a
  ELSE 2 * xor16(a \div 2, b \div 2) + ((a + b) % 2)

\* hash ^ str.charCodeAt(i): an int32; the code unit is below 2^16.
xor(n, code) == LET a == ToInt32(n) IN Num(a.hi, xor16(a.lo, code))

\* hash << k: an int32, the bits shifted out are lost.
shiftLeft(n, k) ==
  LET u  == ToUint32(n)
      lo == IF k < 16 THEN u.lo * 2^k ELSE 0
      hi == IF k < 16 THEN u.hi * 2^k + lo \div 2^16 ELSE u.lo * 2^(k - 16)
  IN ToInt32(Num(hi % 2^16, lo % 2^16))

\* m + n on Numbers.
plus(m, n) ==
  LET lo == m.lo + n.lo IN Num(m.hi + n.hi + lo \div 2^16, lo % 2^16)

\* (the term hash << 7 left out)
multiplyStep_noShift7(hash) ==
  plus(hash, plus(plus(plus(shiftLeft(hash, 1), shiftLeft(hash, 4)),
                       shiftLeft(hash, 8)), shiftLeft(hash, 24)))

\* hash += (hash << 1) + (hash << 4) + (hash << 7) + (hash << 8) + (hash << 24)
multiplyStep(hash) ==
  plus(hash, plus(plus(plus(plus(shiftLeft(hash, 1), shiftLeft(hash, 4)),
                            shiftLeft(hash, 7)), shiftLeft(hash, 8)),
                  shiftLeft(hash, 24)))

\* The loop of lines 68-71 over the code units of str.
RECURSIVE fnvLoop(_, _)
fnvLoop(hash, str) ==
  IF str = <<>> THEN hash
  ELSE fnvLoop(multiplyStep(xor(hash, Head(str))), Tail(str))

\* 0x811c9dc5
OffsetBasis == Num(33052, 40389)

\* fnv32a: the number hash >>> 0 that toString(36) renders.
fnv32a(str) == ToUint32(fnvLoop(OffsetBasis, str))

\* A ZenID "zen-<fnv32a(base)>" with suffix "-<suffix>"; suffix 0: no suffix.
NoZenId == [base |-> "", suffix |-> 0]

\* __zenMapping is a plain object: "signature in __zenMapping" is also true
\* for the names it inherits from Object.prototype.  Of those only
\* "constructor" is a string a signature can be.
ObjectPrototypeKeys == {"constructor"}

\* The number NaN; undefined + 1 and NaN + 1 are NaN.
NaN == -1
PlusOne(count) == IF count = NaN THEN NaN ELSE count + 1

\* generateStableZenId: the id returned and the registry afterwards.
\* zm[signature] is entry.count of the entry "signature in __zenMapping"
\* finds, 0 when signature is not an own property.  For an inherited name the
\* entry is the inherited value: its count is undefined before the first
\* entry.count++ and NaN afterwards.
generateStableZenId(zm, el) ==
  LET signature == signatureOf[el] IN
  IF signature = NULL
    THEN [id |-> NoZenId, zm |-> zm]
  ELSE IF zm[signature] = 0 /\ signature \notin ObjectPrototypeKeys
    THEN [id |-> [base |-> signature, suffix |-> 0],
          zm |-> [zm EXCEPT ![signature] = 1]]
  ELSE LET count == IF zm[signature] = 0 THEN NaN ELSE zm[signature]
       IN [id |-> [base |-> signature,
                   suffix |-> IF count = 1 THEN 2 ELSE PlusOne(count)],
           zm |-> [zm EXCEPT ![signature] = PlusOne(count)]]

\* labelElement: the attributes and the registry afterwards.
labelElement(dz, zm, el) ==
  IF dz[el] = NoZenId
    THEN LET r == generateStableZenId(zm, el)
         IN [dz |-> IF r.id # NoZenId THEN [dz EXCEPT ![el] = r.id] ELSE dz,
             zm |-> r.zm]
    ELSE [dz |-> dz, zm |-> zm]

\* ---- user identity (lines 111-134) ---------------------------------------
\* The id returned, whether the call threw, and localStorage afterwards.
getOrCreateUserId(env, rnd) ==
  LET existingId == IF env.read = "ok" THEN storage ELSE NULL IN
  IF existingId # NULL
    THEN [threw |-> FALSE, id |-> existingId, storage |-> storage]
  ELSE IF env.crypto = "none"
    THEN [threw |-> TRUE, id |-> NULL, storage |-> storage]
  ELSE [threw |-> FALSE, id |-> rnd,
        storage |-> IF env.write = "ok" THEN rnd ELSE storage]

\* ---- enrichment and buffer (lines 139-153) -------------------------------
\* (the payload put at the head of the buffer)
trackInternal_unshift(batch, siteId, userId, zenId) ==
  <<[id |-> nextEv, siteId |-> siteId, userId |-> userId,
     dataZenId |-> zenId]>> \o batch

\* The buffer after trackInternal pushed one payload.  Of the payload the
\* model keeps the object's identity, siteId, userId and, for a click,
\* dataZenId.
trackInternal(batch, siteId, userId, zenId) ==
  Append(batch, [id |-> nextEv, siteId |-> siteId, userId |-> userId,
                 dataZenId |-> zenId])

\* (object spread where the first source keeps its keys)
spread_firstWins(base, data) ==
  [k \in DOMAIN base \cup DOMAIN data |->
     IF k \in DOMAIN base THEN base[k] ELSE data[k]]

\* { ...base, ...data }: a key of both takes the value of the later source.
spread(base, data) ==
  [k \in DOMAIN base \cup DOMAIN data |->
     IF k \in DOMAIN data THEN data[k] ELSE base[k]]

\* The fields trackInternal writes before ...data (lines 141-149), at time
\* now on the page of the model.
context(eventName, now) ==
  [eventName |-> eventName, timestamp |-> now, siteId |-> _siteId,
   userId |-> _userId, url |-> "https://shop.example/cart",
   userAgent |-> "Mozilla/5.0", screenSize |-> "1920x1080",
   language |-> "en-US", referrer |-> ""]

\* The whole payload object of lines 140-151.
payload(eventName, data, now) == spread(context(eventName, now), data)

\* trackInternal(eventName, data) with the whole payload kept in the buffer.
trackInternalWhole(eventName, data, now) ==
  /\ nextEv <= MaxEvents
  /\ _eventBatch' = Append(_eventBatch, payload(eventName, data, now))
  /\ nextEv' = nextEv + 1
  /\ UNCHANGED <<_initialized, _siteId, _userId, _config, _eventListeners,
                 _batchTimer, zenMapping>>
  /\ UNCHANGED <<envVars, console, gen>>

\* ---- delivery (lines 158-184) --------------------------------------------
\* (no test for an empty buffer)
flushEventBatch_noEmptyCheck(batch) ==
  /\ Len(sent) < MaxSends
  /\ sent' = Append(sent, [events |-> [i \in DOMAIN batch |-> batch[i].id]])
  /\ pending' = pending \cup {Len(sent) + 1}

\* flushEventBatch called when _eventBatch holds batch: JSON.stringify copies
\* the events into the request body at the call; _eventBatch is not assigned
\* here, only by the promise callbacks (FetchSettles).  Of the body
\* {userId, siteId, events} the model keeps the identities of the events.
flushEventBatch(batch) ==
  IF Len(batch) = 0
    THEN UNCHANGED <<sent, pending>>
    ELSE /\ Len(sent) < MaxSends
         /\ sent' = Append(sent, [events |-> [i \in DOMAIN batch |-> batch[i].id]])
         /\ pending' = pending \cup {Len(sent) + 1}

\* (a rejected promise leaves the buffer as it is)
FetchSettles_keepOnError(i, outcome) ==
  /\ i \in pending
  /\ pending' = pending \ {i}
  /\ _eventBatch' = IF outcome = "error" THEN _eventBatch ELSE <<>>
  /\ console' = CASE outcome = "ok"    -> console
                  [] outcome = "notok" -> "warn: Failed to post events"
                  [] outcome = "error" -> "warn: Error posting events"
  /\ UNCHANGED <<_initialized, _siteId, _userId, _config, _eventListeners,
                 _batchTimer, zenMapping>>
  /\ UNCHANGED <<listeners, timers, storage, dataZenid, scrollRecent, sent>>
  /\ UNCHANGED idVars

\* .then / .catch of the fetch promise of request i (lines 174-183).
FetchSettles(i, outcome) ==
  /\ i \in pending
  /\ pending' = pending \ {i}
  /\ _eventBatch' = <<>>
  /\ console' = CASE outcome = "ok"    -> console
                  [] outcome = "notok" -> "warn: Failed to post events"
                  [] outcome = "error" -> "warn: Error posting events"
  /\ UNCHANGED <<_initialized, _siteId, _userId, _config, _eventListeners,
                 _batchTimer, zenMapping>>
  /\ UNCHANGED <<listeners, timers, storage, dataZenid, scrollRecent, sent>>
  /\ UNCHANGED idVars

\* ---- listeners (lines 189-283) -------------------------------------------
\* The seven registrations of attachCoreEventListeners, in code order.
CoreEvents ==
  << [target |-> "document", event |-> "click",            capture |-> FALSE],
     [target |-> "window",   event |-> "load",             capture |-> FALSE],
     [target |-> "window",   event |-> "beforeunload",     capture |-> TRUE],
     [target |-> "window",   event |-> "scroll",           capture |-> FALSE],
     [target |-> "window",   event |-> "resize",           capture |-> FALSE],
     [target |-> "document", event |-> "visibilitychange", capture |-> FALSE],
     [target |-> "window",   event |-> "error",            capture |-> FALSE] >>

\* addEventListener(event, handler, options): the handler closures of run g.
Registered(g) ==
  { [target |-> CoreEvents[i].target, event |-> CoreEvents[i].event,
     handler |-> g, capture |-> CoreEvents[i].capture] : i \in DOMAIN CoreEvents }

\* The entries pushed onto _eventListeners: options is {capture: true} for
\* beforeunload and absent elsewhere.
Pushed(g) ==
  [i \in DOMAIN CoreEvents |->
     [target |-> CoreEvents[i].target, event |-> CoreEvents[i].event,
      handler |-> g,
      options |-> IF CoreEvents[i].capture THEN "capture" ELSE NULL]]

\* (removeEventListener(event, handler): the options are not passed on)
removeEventListener_noOptions(ls, entry) ==
  { l \in ls : ~ ( /\ l.target = entry.target
                   /\ l.event = entry.event
                   /\ l.handler = entry.handler
                   /\ l.capture = FALSE ) }

\* target.removeEventListener(event, handler, options || false): a listener
\* is removed when target, type, callback and capture flag all match.
removeEventListener(ls, entry) ==
  { l \in ls : ~ ( /\ l.target = entry.target
                   /\ l.event = entry.event
                   /\ l.handler = entry.handler
                   /\ l.capture = (entry.options = "capture") ) }

\* _eventListeners.forEach(... removeEventListener ...) (lines 327-329)
RECURSIVE removeAll(_, _)
removeAll(ls, entries) ==
  IF entries = <<>> THEN ls
  ELSE removeAll(removeEventListener(ls, Head(entries)), Tail(entries))

\* ---- public API (lines 292-349) ------------------------------------------
\* (a guard that never rejects)
init_neverRejects == FALSE

\* init's guard (line 293).
init_alreadyInitialized == _initialized

\* USERQUERY.init(config), with localStorage, crypto and document.readyState
\* as the call finds them.  getOrCreateUserId throwing leaves init at line
\* 300: the flag, _config and _siteId are already assigned.
USERQUERY_init(config, env, rnd, complete) ==
  IF init_alreadyInitialized
    THEN /\ console' = "warn: Already initialized."
         /\ UNCHANGED <<progVars, envVars, idVars>>
    ELSE LET cfg == AssignConfig(config)
             u   == getOrCreateUserId(env, rnd)
             g   == gen + 1
         IN /\ _initialized' = TRUE
            /\ _config' = cfg
            /\ _siteId' = cfg.siteId
            /\ UNCHANGED <<zenMapping, dataZenid, pending, sent>>
            /\ IF u.threw
                 THEN /\ console' = IF env.read = "throws"
                                      THEN "warn: localStorage not available."
                                      ELSE console
                      /\ UNCHANGED <<_userId, _eventListeners, _eventBatch,
                                     _batchTimer, listeners, timers, storage,
                                     scrollRecent, nextEv, gen>>
                 ELSE /\ gen < MaxInits
                      /\ complete => nextEv <= MaxEvents
                      /\ _userId' = u.id
                      /\ storage' = u.storage
                      /\ console' = "log: Initializing"
                      /\ listeners' = listeners \cup Registered(g)
                      /\ _eventListeners' = _eventListeners \o Pushed(g)
                      /\ scrollRecent' = FALSE
                      /\ _eventBatch' =
                           IF complete
                             THEN trackInternal(_eventBatch, cfg.siteId, u.id,
                                                NoZenId)
                             ELSE _eventBatch
                      /\ nextEv' = IF complete THEN nextEv + 1 ELSE nextEv
                      /\ _batchTimer' = g
                      /\ timers' = timers \cup {g}
                      /\ gen' = g

\* (a guard that never rejects)
stop_neverRejects == FALSE

\* stop's guard (line 320).
stop_notInitialized == ~_initialized

\* (the flag left as it is)
stop_flagKept == _initialized

\* _initialized = false (line 324): the flag after stop.
stop_flag == FALSE

\* if (_batchTimer) { clearInterval(_batchTimer); ... } (lines 334-337):
\* the timers still running.
clearBatchTimer ==
  IF _batchTimer # NoTimer THEN timers \ {_batchTimer} ELSE timers

\* USERQUERY.stop()
USERQUERY_stop ==
  IF stop_notInitialized
    THEN /\ console' = "warn: Not initialized or already stopped."
         /\ UNCHANGED <<progVars, envVars, idVars>>
    ELSE /\ _initialized' = stop_flag
         /\ console' = "log: Stopping"
         /\ listeners' = removeAll(listeners, _eventListeners)
         /\ _eventListeners' = <<>>
         /\ flushEventBatch(_eventBatch)
         /\ timers' = clearBatchTimer
         /\ _batchTimer' = NoTimer
         /\ UNCHANGED <<_siteId, _userId, _config, _eventBatch, zenMapping>>
         /\ UNCHANGED <<storage, dataZenid, scrollRecent>>
         /\ UNCHANGED idVars

\* (a guard that never rejects)
trackCustom_neverRejects == FALSE

\* trackCustom's guard (line 344).
trackCustom_notInitialized == ~_initialized

\* USERQUERY.trackCustom(eventName, data)
USERQUERY_trackCustom(eventName) ==
  IF trackCustom_notInitialized
    THEN /\ console' = "warn: Not initialized. Cannot track custom events."
         /\ UNCHANGED <<progVars, envVars, idVars>>
    ELSE /\ nextEv <= MaxEvents
         /\ _eventBatch' = trackInternal(_eventBatch, _siteId, _userId, NoZenId)
         /\ nextEv' = nextEv + 1
         /\ UNCHANGED <<_initialized, _siteId, _userId, _config,
                        _eventListeners, _batchTimer, zenMapping>>
         /\ UNCHANGED <<envVars, console, gen>>

\* ---- callbacks run by the browser ----------------------------------------
\* A handler that only calls trackInternal: pageLoadHandler, resizeHandler,
\* visibilityHandler, errorHandler.
Handler(l, event) ==
  /\ l \in listeners
  /\ l.event = event
  /\ nextEv <= MaxEvents
  /\ _eventBatch' = trackInternal(_eventBatch, _siteId, _userId, NoZenId)
  /\ nextEv' = nextEv + 1
  /\ UNCHANGED <<_initialized, _siteId, _userId, _config, _eventListeners,
                 _batchTimer, zenMapping>>
  /\ UNCHANGED <<envVars, console, gen>>

pageLoadHandler(l)   == Handler(l, "load")
resizeHandler(l)     == Handler(l, "resize")
visibilityHandler(l) == Handler(l, "visibilitychange")
errorHandler(l)      == Handler(l, "error")

\* clickHandler (lines 191-202): label the target, then record the click
\* with the target's data-zenid.
clickHandler(l, el) ==
  /\ l \in listeners
  /\ l.event = "click"
  /\ nextEv <= MaxEvents
  /\ LET r == labelElement(dataZenid, zenMapping, el)
     IN /\ dataZenid' = r.dz
        /\ zenMapping' = r.zm
        /\ _eventBatch' = trackInternal(_eventBatch, _siteId, _userId, r.dz[el])
  /\ nextEv' = nextEv + 1
  /\ UNCHANGED <<_initialized, _siteId, _userId, _config, _eventListeners,
                 _batchTimer>>
  /\ UNCHANGED <<listeners, timers, storage, scrollRecent, pending, sent>>
  /\ UNCHANGED <<console, gen>>

\* unloadHandler (lines 226-229): record pageUnload, then flush.
unloadHandler(l) ==
  /\ l \in listeners
  /\ l.event = "beforeunload"
  /\ nextEv <= MaxEvents
  /\ LET batch == trackInternal(_eventBatch, _siteId, _userId, NoZenId)
     IN /\ _eventBatch' = batch
        /\ flushEventBatch(batch)
  /\ nextEv' = nextEv + 1
  /\ UNCHANGED <<_initialized, _siteId, _userId, _config, _eventListeners,
                 _batchTimer, zenMapping>>
  /\ UNCHANGED <<listeners, timers, storage, dataZenid, scrollRecent>>
  /\ UNCHANGED <<console, gen>>

\* scrollHandler (lines 235-243): at most one scroll event per second.
scrollHandler(l) ==
  /\ l \in listeners
  /\ l.event = "scroll"
  /\ IF scrollRecent
       THEN UNCHANGED <<_eventBatch, nextEv, scrollRecent>>
       ELSE /\ nextEv <= MaxEvents
            /\ _eventBatch' = trackInternal(_eventBatch, _siteId, _userId, NoZenId)
            /\ nextEv' = nextEv + 1
            /\ scrollRecent' = TRUE
  /\ UNCHANGED <<_initialized, _siteId, _userId, _config, _eventListeners,
                 _batchTimer, zenMapping>>
  /\ UNCHANGED <<listeners, timers, storage, dataZenid, pending, sent>>
  /\ UNCHANGED <<console, gen>>

\* A second passes since the last recorded scroll (Date.now() advances).
SecondElapses ==
  /\ scrollRecent
  /\ scrollRecent' = FALSE
  /\ UNCHANGED progVars
  /\ UNCHANGED <<listeners, timers, storage, dataZenid, pending, sent>>
  /\ UNCHANGED <<console, idVars>>

\* The interval timer t fires: setInterval(flushEventBatch, ...) (line 313).
TimerTick(t) ==
  /\ t \in timers
  /\ flushEventBatch(_eventBatch)
  /\ UNCHANGED progVars
  /\ UNCHANGED <<listeners, timers, storage, dataZenid, scrollRecent>>
  /\ UNCHANGED <<console, idVars>>

\* ---- the state machine ---------------------------------------------------
\* log.js has been loaded, nothing was called yet.
Loaded ==
  /\ _initialized = FALSE
  /\ _siteId = NULL
  /\ _userId = NULL
  /\ _config = [k \in {} |-> ""]
  /\ _eventListeners = <<>>
  /\ _eventBatch = <<>>
  /\ _batchTimer = NoTimer
  /\ zenMapping = [sig \in Signatures |-> 0]
  /\ listeners = {}
  /\ timers = {}
  /\ storage = NULL
  /\ dataZenid = [el \in Elements |-> NoZenId]
  /\ scrollRecent = FALSE
  /\ pending = {}
  /\ sent = <<>>
  /\ console = ""
  /\ nextEv = 1
  /\ gen = 0
  /\ initMark = 0
  /\ stopDue = [events |-> {}, batch |-> 0]

Init ==
  /\ Loaded
  /\ called = <<>>
  /\ returned = <<>>

\* The calls of the page's scripts and the callbacks of the browser.
InitCall ==
  \E config \in Configs, env \in Environments, rnd \in RandomIds,
     complete \in BOOLEAN : USERQUERY_init(config, env, rnd, complete)
StopCall == USERQUERY_stop
TrackCustomCall == \E eventName \in CustomNames : USERQUERY_trackCustom(eventName)
ClickCallback == \E l \in listeners, el \in Clicked : clickHandler(l, el)
LoadCallback == \E l \in listeners : pageLoadHandler(l)
UnloadCallback == \E l \in listeners : unloadHandler(l)
ScrollCallback == \E l \in listeners : scrollHandler(l)
ResizeCallback == \E l \in listeners : resizeHandler(l)
VisibilityCallback == \E l \in listeners : visibilityHandler(l)
ErrorCallback == \E l \in listeners : errorHandler(l)
TimerCallback == \E t \in timers : TimerTick(t)
FetchCallback == \E i \in pending, outcome \in Outcomes : FetchSettles(i, outcome)

NoAudit == UNCHANGED <<histVars, fnVars>>

Next ==
  \/ InitCall /\ NoAudit
  \/ StopCall /\ NoAudit
  \/ TrackCustomCall /\ NoAudit
  \/ ClickCallback /\ NoAudit
  \/ LoadCallback /\ NoAudit
  \/ UnloadCallback /\ NoAudit
  \/ ScrollCallback /\ NoAudit
  \/ ResizeCallback /\ NoAudit
  \/ VisibilityCallback /\ NoAudit
  \/ ErrorCallback /\ NoAudit
  \/ TimerCallback /\ NoAudit
  \/ FetchCallback /\ NoAudit
  \/ SecondElapses /\ NoAudit

Spec == Init /\ [][Next]_vars

\* The same program with the history of init / flush / stop recorded.
\* init completed: the events recorded from here on are "since init".
AuditInit ==
  /\ initMark' = IF gen' # gen THEN nextEv ELSE initMark
  /\ UNCHANGED <<stopDue, fnVars>>

\* stop() ran while Active, before any timer tick or beforeunload flush:
\* what it owes and the batch it sent.
AuditStop ==
  /\ stopDue' =
       IF _initialized /\ _batchTimer # NoTimer /\ initMark > 0
         THEN [events |-> initMark .. nextEv - 1,
               batch |-> IF Len(sent') > Len(sent) THEN Len(sent') ELSE 0]
         ELSE stopDue
  /\ UNCHANGED <<initMark, fnVars>>

\* the flush timer fired, or a beforeunload flush happened.
AuditFlush ==
  /\ initMark' = 0
  /\ UNCHANGED <<stopDue, fnVars>>

NextAudit ==
  \/ InitCall /\ AuditInit
  \/ StopCall /\ AuditStop
  \/ TrackCustomCall /\ NoAudit
  \/ ClickCallback /\ NoAudit
  \/ LoadCallback /\ NoAudit
  \/ UnloadCallback /\ AuditFlush
  \/ ScrollCallback /\ NoAudit
  \/ ResizeCallback /\ NoAudit
  \/ VisibilityCallback /\ NoAudit
  \/ ErrorCallback /\ NoAudit
  \/ TimerCallback /\ AuditFlush
  \/ FetchCallback /\ NoAudit
  \/ SecondElapses /\ NoAudit

SpecAudit == Init /\ [][NextAudit]_vars

\* ---- the functions of the module called on their own ---------------------
Untouched == UNCHANGED <<envVars, console, idVars, histVars>>

\* generateElementSignature on two elements.
InitSignature ==
  /\ Loaded
  /\ called \in ElementShapes \X ElementShapes
  /\ returned = <<>>

SignatureCall ==
  /\ returned = <<>>
  /\ returned' = << generateElementSignature(called[1]),
                    generateElementSignature(called[2]) >>
  /\ UNCHANGED <<progVars, called>>
  /\ Untouched

NextSignature == SignatureCall

SpecSignature == InitSignature /\ [][NextSignature]_vars

\* fnv32a on one string.
InitHash ==
  /\ Loaded
  /\ called \in Strings
  /\ returned = <<>>

HashCall ==
  /\ returned = <<>>
  /\ returned' = <<fnv32a(called)>>
  /\ UNCHANGED <<progVars, called>>
  /\ Untouched

NextHash == HashCall

SpecHash == InitHash /\ [][NextHash]_vars

\* generateStableZenId on the elements of the page, in any order.
ZenIdCall ==
  \E el \in Elements :
    /\ Len(called) < MaxRequests
    /\ LET r == generateStableZenId(zenMapping, el)
       IN /\ zenMapping' = r.zm
          /\ returned' = <<r.id>>
    /\ called' = Append(called, el)
    /\ UNCHANGED <<_initialized, _siteId, _userId, _config, _eventListeners,
                   _eventBatch, _batchTimer>>
    /\ Untouched

NextZenId == ZenIdCall

SpecZenId == Init /\ [][NextZenId]_vars

\* The agent initialized and every element of the page clicked.
AnyClickCallback == \E l \in listeners, el \in Elements : clickHandler(l, el)

NextClick ==
  \/ InitCall /\ NoAudit
  \/ AnyClickCallback /\ NoAudit

SpecClick == Init /\ [][NextClick]_vars

\* The agent initialized while the page loads, and trackCustom called with
\* data; the buffer keeps the whole payloads.
LoadingInitCall ==
  \E config \in Configs, env \in Environments, rnd \in RandomIds :
    USERQUERY_init(config, env, rnd, FALSE)

TrackCustomDataCall ==
  \E eventName \in CustomNames, data \in CustomData, now \in Timestamps :
    /\ ~trackCustom_notInitialized
    /\ trackInternalWhole(eventName, data, now)

NextEnrich ==
  \/ LoadingInitCall /\ NoAudit
  \/ TrackCustomDataCall /\ NoAudit

SpecEnrich == Init /\ [][NextEnrich]_vars

\* ==== properties ==========================================================
AllState == <<progVars, envVars, idVars>>
AgentRest == <<_initialized, _siteId, _userId, _config, _eventListeners,
               _batchTimer, zenMapping>>

\* C1: whenever flushEventBatch hands a batch to the transport (the buffer
\* was non-empty), the buffer is empty when the call returns.
C1_BufferEmptyAfterFlush ==
  [][Len(sent') > Len(sent) => _eventBatch' = <<>>]_vars

\* C2: a completion callback never removes an event that has not been handed
\* to the transport: every event in the buffer when a fetch promise settles
\* is still in the buffer afterwards or is listed in a batch already sent.
C2_CompletionKeepsLaterEvents ==
  [][(pending' # pending /\ pending' \subseteq pending) =>
       \A e \in EventIds(_eventBatch) :
          e \in EventIds(_eventBatch') \/ e \in SentIds']_vars

\* C3: at-most-once delivery: no event is listed in more than one batch
\* handed to the transport.
C3_AtMostOnce == \A e \in SentIds : Cardinality(BatchesWith(e)) <= 1

\* C4: flushes are serialized: never two deliveries outstanding at once.
C4_FlushesSerialized == Cardinality(pending) <= 1

\* C5 (under SpecAudit): when stop() ran while Active before any timer tick
\* or beforeunload flush, every event recorded since init is listed in the
\* batch stop() sent and in no other batch, then and ever after.
C5_StopDeliversExactlyOnce ==
  \A e \in stopDue.events : BatchesWith(e) = {stopDue.batch}

\* C6 as claimed: Stopped is terminal; once an agent that was Active has been
\* stopped, no step makes it Active again.
C6_StoppedIsTerminal ==
  [][(~_initialized /\ gen > 0) => ~_initialized']_vars

\* C6 as amended: stop() leaves the agent inactive, and it stays inactive
\* under every operation except init; an init call is the only step that
\* makes it Active again.
C6_OnlyInitRestarts ==
  [][ /\ (_initialized /\ StopCall) => ~_initialized'
      /\ (~_initialized /\ _initialized') => InitCall ]_vars

\* C6 witness: the agent is Active again after a stop, with the listeners
\* and the timer of the second init.
C6_Restarted ==
  /\ _initialized
  /\ gen = 2
  /\ listeners = Registered(2)
  /\ timers = {2}

\* At most one listener per core event (the registered ones all belong to
\* the latest run of attachCoreEventListeners) and one timer; exactly the
\* seven and the one while init has completed and stop has not run.
OneSetRegistered ==
  /\ listeners \subseteq Registered(gen)
  /\ Cardinality(timers) <= 1
  /\ _batchTimer # NoTimer =>
       /\ Cardinality(listeners) = Len(CoreEvents)
       /\ Len(_eventListeners) = Len(CoreEvents)
       /\ timers = {_batchTimer}

\* C7: an init call while already initialized changes nothing (siteId,
\* userId, configuration, buffer, listener list, timer, registered
\* listeners); so one set of the seven listeners and one timer is registered
\* at most, and one stop() removes them all.
C7_SecondInitNoOp ==
  [][ /\ OneSetRegistered'
      /\ (_initialized /\ InitCall) => UNCHANGED AllState
      /\ (_initialized # _initialized' /\ StopCall) =>
           (listeners' = {} /\ timers' = {}) ]_vars

\* C7 witness: a second init was rejected while the seven listeners and the
\* timer of the first are in place.
C7_SecondInitRejected ==
  /\ console = "warn: Already initialized."
  /\ _initialized
  /\ Cardinality(listeners) = Len(CoreEvents)
  /\ Cardinality(timers) = 1

\* C8: stop() from the Active state deregisters every listener and cancels
\* the timer; while the agent is not initialized no listener and no timer
\* is left, so no step appends to the buffer or hands a batch to the
\* transport.
C8_StopRemovesAll ==
  [][ /\ (_initialized /\ StopCall) =>
           /\ listeners' = {}
           /\ timers' = {}
           /\ _eventListeners' = <<>>
           /\ _batchTimer' = NoTimer
      /\ (~_initialized /\ ~_initialized') =>
           /\ listeners' = {}
           /\ timers' = {}
           /\ sent' = sent
           /\ _eventBatch' \in {_eventBatch, <<>>} ]_vars

\* C8 witness: stopped after a completed init, with events still buffered.
C8_StoppedWithBuffer ==
  /\ console = "log: Stopping"
  /\ ~_initialized
  /\ gen > 0
  /\ _eventBatch # <<>>
  /\ listeners = {}
  /\ timers = {}

\* C9: trackCustom while not initialized changes nothing; while initialized
\* it appends exactly one event to the tail of the buffer and changes
\* nothing else.
C9_TrackCustomGuarded ==
  [][TrackCustomCall =>
       IF _initialized
         THEN /\ Len(_eventBatch') = Len(_eventBatch) + 1
              /\ SubSeq(_eventBatch', 1, Len(_eventBatch)) = _eventBatch
              /\ _eventBatch'[Len(_eventBatch')].id \notin EventIds(_eventBatch)
              /\ UNCHANGED <<AgentRest, envVars>>
         ELSE UNCHANGED AllState]_vars

\* C9 witness: trackCustom was rejected after a stop.
C9_RejectedAfterStop ==
  /\ console = "warn: Not initialized. Cannot track custom events."
  /\ ~_initialized
  /\ gen > 0

\* C10: stop() while not initialized changes nothing: no delivery, no
\* listener removed, no timer cancelled, buffer and all other state as
\* before.
C10_StopWhenInactiveNoOp ==
  [][(~_initialized /\ StopCall) => UNCHANGED AllState]_vars

\* C10 witness: a stop was rejected while events were still buffered.
C10_StopRejectedWithBuffer ==
  /\ console = "warn: Not initialized or already stopped."
  /\ ~_initialized
  /\ _eventBatch # <<>>

\* C11: flushEventBatch called on an empty buffer makes no delivery call and
\* changes no state, whoever calls it: a timer tick on an empty buffer
\* changes nothing at all, stop() on an empty buffer hands nothing to the
\* transport and leaves the buffer empty, and no request body (the
\* beforeunload handler's included) ever lists zero events.
C11_EmptyFlushNoOp ==
  [][ /\ (_eventBatch = <<>> /\ TimerCallback) => UNCHANGED <<AllState, console>>
      /\ (_eventBatch = <<>> /\ StopCall) =>
            (sent' = sent /\ pending' = pending /\ _eventBatch' = <<>>)
      /\ \A i \in DOMAIN sent' : sent'[i].events # <<>> ]_vars

\* C11 witness: stop() ran on an Active agent whose buffer was empty, and
\* nothing has been handed to the transport.
C11_StoppedOnEmptyBuffer ==
  /\ console = "log: Stopping"
  /\ ~_initialized
  /\ gen > 0
  /\ _eventBatch = <<>>
  /\ sent = <<>>

\* C15: whatever localStorage and crypto offer, an init call that passes the
\* guard completes: the agent is Active (timer running, seven listeners) with
\* a userId in memory; a readable stored id is reused unchanged, and a newly
\* made id is written back when localStorage can be written.
C15_InitAlwaysCompletes ==
  [][ \A config \in Configs, env \in Environments, rnd \in RandomIds,
         complete \in BOOLEAN :
        (~_initialized /\ USERQUERY_init(config, env, rnd, complete)) =>
          /\ _initialized'
          /\ _userId' # NULL
          /\ _batchTimer' \in timers'
          /\ Cardinality(listeners') = Len(CoreEvents)
          /\ (env.read = "ok" /\ storage # NULL) =>
                (_userId' = storage /\ storage' = storage)
          /\ (~(env.read = "ok" /\ storage # NULL) /\ env.write = "ok") =>
                storage' = _userId' ]_vars

\* C16: a delivery that fails (response not ok, or the promise rejected)
\* leaves the agent exactly where a successful delivery leaves it: the buffer
\* is emptied, the request is settled, nothing is sent again, and nothing else
\* changes, so recording goes on as before.
C16_FailureLikeSuccess ==
  [][ \A i \in pending, outcome \in {"notok", "error"} :
        FetchSettles(i, outcome) =>
          /\ _eventBatch' = <<>>
          /\ pending' = pending \ {i}
          /\ sent' = sent
          /\ UNCHANGED <<AgentRest, listeners, timers, storage, dataZenid,
                         scrollRecent, idVars>> ]_vars

\* C16 witness: a delivery was rejected, no request is in flight, nothing was
\* sent again, and an event recorded after the failure is in the buffer.
C16_RecordedAfterFailure ==
  /\ console = "warn: Error posting events"
  /\ pending = {}
  /\ Len(sent) = 1
  /\ _eventBatch # <<>>
  /\ \A e \in EventIds(_eventBatch) : e \notin SentIds

C20_FlagMatchesResources ==
  /\ _initialized <=> ( /\ _batchTimer \in timers
                        /\ Len(_eventListeners) = Len(CoreEvents)
                        /\ Cardinality(listeners) = Len(CoreEvents) )
  /\ ~_initialized => (_eventListeners = <<>> /\ _batchTimer = NoTimer)

\* C12: the k-th generateStableZenId call for a signature returns
\* zen-<hash> when k = 1 and zen-<hash>-<k> when k >= 2, and the registry
\* count of every signature is the number of calls made for it, whatever
\* calls for other signatures come in between.
Requests(sig) ==
  Cardinality({ i \in DOMAIN called : signatureOf[called[i]] = sig })

C12_KthRequest ==
  called # <<>> =>
    LET sig == signatureOf[called[Len(called)]]
        k   == Requests(sig)
    IN /\ returned[1] = [base |-> sig, suffix |-> IF k = 1 THEN 0 ELSE k]
       /\ \A s \in Signatures : zenMapping[s] = Requests(s)

\* C13: over any sequence of clicks a data-zenid once set never changes, a
\* click on a labelled element leaves the registry alone, every click event
\* carries the clicked element's label, and of two elements with the same
\* signature that were both clicked one has zen-<hash> and the other
\* zen-<hash>-2.
C13_LabelsStable ==
  [][ /\ \A el \in Elements :
           dataZenid[el] # NoZenId => dataZenid'[el] = dataZenid[el]
      /\ \A l \in listeners, el \in Elements :
           clickHandler(l, el) =>
             /\ dataZenid[el] # NoZenId => zenMapping' = zenMapping
             /\ _eventBatch'[Len(_eventBatch')].dataZenId = dataZenid'[el]
      /\ \A e1, e2 \in Elements :
           ( /\ e1 # e2
             /\ signatureOf[e1] = signatureOf[e2]
             /\ dataZenid'[e1] # NoZenId
             /\ dataZenid'[e2] # NoZenId ) =>
             {dataZenid'[e1].suffix, dataZenid'[e2].suffix} = {0, 2} ]_vars

\* C14: two elements with the same tag, id, class, name, type and trimmed
\* text have the same signature, and two elements whose emitted tokens differ
\* have different signatures.
C14_SignatureInjective ==
  returned # <<>> =>
    LET a == called[1]
        b == called[2]
    IN (a.tagName # "" /\ b.tagName # "") =>
         /\ ( /\ toLowerCase(a.tagName) = toLowerCase(b.tagName)
              /\ a.id = b.id
              /\ a.className = b.className
              /\ a.name = b.name
              /\ a.type = b.type
              /\ trim(a.text) = trim(b.text) ) => returned[1] = returned[2]
         /\ parts(a) # parts(b) => returned[1] # returned[2]

\* C17: trackInternal appends exactly one event at the tail of the buffer and
\* leaves the events before it as they were; the new event has the nine base
\* fields and the caller's keys, every caller's key with the caller's value
\* and every other base field with the value of the page and the agent.
BaseFields == {"eventName", "timestamp", "siteId", "userId", "url",
               "userAgent", "screenSize", "language", "referrer"}

C17_AppendsOneMergedEvent ==
  [][ \A eventName \in CustomNames, data \in CustomData, now \in Timestamps :
        trackInternalWhole(eventName, data, now) =>
          LET n    == Len(_eventBatch)
              e    == _eventBatch'[n + 1]
              base == context(eventName, now)
          IN /\ Len(_eventBatch') = n + 1
             /\ SubSeq(_eventBatch', 1, n) = _eventBatch
             /\ DOMAIN base = BaseFields
             /\ base.eventName = eventName /\ base.timestamp = now
             /\ base.siteId = _siteId /\ base.userId = _userId
             /\ DOMAIN e = BaseFields \cup DOMAIN data
             /\ \A k \in DOMAIN data : e[k] = data[k]
             /\ \A k \in BaseFields \ DOMAIN data : e[k] = base[k] ]_vars

\* C17 witness: a second event was appended whose data named eventName and
\* userId: the buffer holds it with the caller's values, after the first.
C17_CallerKeysWon ==
  /\ Len(_eventBatch) = 2
  /\ _eventBatch[1].eventName = "purchase"
  /\ _eventBatch[2].eventName = "spoofed"
  /\ _eventBatch[2].userId = "someone"
  /\ _eventBatch[2].siteId = _siteId

\* 32-bit FNV-1a as published: for every code unit, exclusive or, then the
\* product with the prime 16777619 modulo 2^32, on unsigned words.
FNV1aMultiply(u) ==
  LET prime == 16777619
      pHi   == prime \div 2^16
      pLo   == prime % 2^16
      low   == u.lo * pLo
  IN Num((u.hi * pLo + u.lo * pHi + low \div 2^16) % 2^16, low % 2^16)

RECURSIVE FNV1a(_, _)
FNV1a(u, str) ==
  IF str = <<>> THEN u
  ELSE FNV1a(FNV1aMultiply(Num(u.hi, xor16(u.lo, Head(str)))), Tail(str))

\* C19: the number fnv32a renders is the 32-bit FNV-1a hash of the string
\* (offset basis 0x811c9dc5, prime 16777619), every shift-and-add step equals
\* the multiplication by the prime modulo 2^32, and the result lies in
\* 0 .. 2^32 - 1 and is the same whenever the string is the same.
C19_Fnv32aIsFNV1a ==
  returned # <<>> =>
    LET r == returned[1] IN
    /\ r = FNV1a(OffsetBasis, called)
    /\ r.hi \in 0 .. 2^16 - 1 /\ r.lo \in 0 .. 2^16 - 1
    /\ r = fnv32a(called)
    /\ \A i \in DOMAIN called :
         LET h == xor(fnvLoop(OffsetBasis, SubSeq(called, 1, i - 1)), called[i])
         IN ToUint32(multiplyStep(h)) = FNV1aMultiply(ToUint32(h))

\* C19 witness: fnv32a("a") returned 0xe40c292c, the published FNV-1a hash
\* of "a".
C19_HashOfA ==
  /\ called = <<97>>
  /\ returned = <<Num(58380, 10540)>>

====
